---- MODULE Spec2Model ----
(***************************************************************************)
(* A model of pygrist_mini.GristClient: the request each public operation  *)
(* builds, the one call it makes to the HTTP transport, and the value it   *)
(* returns or the exception it raises for the reply the transport gives.   *)
(***************************************************************************)
EXTENDS Integers, Sequences, FiniteSets, TLC

\* ------------------------------------------------------------------ bounds

\* Longest data / ids list passed to patch_records, add_records, delete_records.
MaxData == 2

\* Most HTTP requests issued over the life of one client.
MaxRequests == 2

\* ----------------------------------------------------------- Python values

\* Python / JSON values, tagged with their type.  A dict is the sequence of
\* its (key, value) pairs in insertion order, which is the order json.dumps
\* writes them in.
PyNone == [t |-> "NoneType", v |-> 0]
PyBool(b) == [t |-> "bool", v |-> b]
PyInt(n) == [t |-> "int", v |-> n]
PyStr(s) == [t |-> "str", v |-> s]
PyList(items) == [t |-> "list", v |-> items]
PyTuple(items) == [t |-> "tuple", v |-> items]
PyDict(pairs) == [t |-> "dict", v |-> pairs]

\* bool(obj) as `if filter:` and `if not data:` evaluate it.
truthy(obj) ==
    CASE obj.t = "NoneType" -> FALSE
      [] obj.t = "bool" -> obj.v
      [] obj.t = "int" -> obj.v # 0
      [] obj.t = "str" -> obj.v # ""
      [] OTHER -> Len(obj.v) > 0

has_key(obj, key) ==
    obj.t = "dict" /\ \E i \in 1..Len(obj.v) : obj.v[i][1] = key

dict_get(obj, key) ==
    obj.v[CHOOSE i \in 1..Len(obj.v) : obj.v[i][1] = key][2]

RECURSIVE join(_, _)
join(parts, sep) ==
    IF Len(parts) = 0 THEN ""
    ELSE IF Len(parts) = 1 THEN parts[1]
    ELSE parts[1] \o sep \o join(Tail(parts), sep)

\* json.dumps(obj) with the default separators (", " and ": ").  The strings
\* of the model hold no character that JSON escapes.
RECURSIVE dumps(_)
dumps(obj) ==
    CASE obj.t = "NoneType" -> "null"
      [] obj.t = "bool" -> IF obj.v THEN "true" ELSE "false"
      [] obj.t = "int" -> ToString(obj.v)
      [] obj.t = "str" -> "\"" \o obj.v \o "\""
      [] obj.t = "dict" ->
            "{" \o join([i \in 1..Len(obj.v) |->
                           "\"" \o obj.v[i][1] \o "\": " \o dumps(obj.v[i][2])],
                        ", ") \o "}"
      [] OTHER ->
            "[" \o join([i \in 1..Len(obj.v) |-> dumps(obj.v[i])], ", ") \o "]"

\* ------------------------------------------------------ outcomes of a call

Return(value) ==
    [kind |-> "return", exc |-> "", status_code |-> 0, message |-> "",
     value |-> value]

Raise(exc) ==
    [kind |-> "raise", exc |-> exc, status_code |-> 0, message |-> "",
     value |-> PyNone]

HTTPError(status_code, message) ==
    [kind |-> "raise", exc |-> "HTTPError", status_code |-> status_code,
     message |-> message, value |-> PyNone]

NoResult ==
    [kind |-> "none", exc |-> "", status_code |-> 0, message |-> "",
     value |-> PyNone]

\* --------------------------------------------------- replies of transport

Response(status_code, text, decodes, body) ==
    [kind |-> "response", status_code |-> status_code, text |-> text,
     decodes |-> decodes, json |-> body]

\* requests.request raised instead of returning (connection refused, ...).
TransportError ==
    [kind |-> "error", status_code |-> 0, text |-> "", decodes |-> FALSE,
     json |-> PyNone]

NoReply ==
    [kind |-> "none", status_code |-> 0, text |-> "", decodes |-> FALSE,
     json |-> PyNone]

\* str(obj) as an f-string formats a path component.
format(obj) ==
    CASE obj.t = "str" -> obj.v
      [] obj.t = "int" -> ToString(obj.v)
      [] OTHER -> dumps(obj)

\* ------------------------------------------------------------------ inputs

RootUrls == {"https://grist.example"}
ApiKeys == {"key-1", "key-2"}
DocIds == {"doc1"}
Timeouts == {PyNone, PyInt(5)}

TableIds == {PyStr("Table1"), PyInt(2)}

Fields(i) == PyDict(<< <<"a", PyInt(i)>> >>)

StatusFilter == PyDict(<< <<"status", PyList(<<PyStr("open"), PyStr("pending")>>)>> >>)
TwoColumnFilter ==
    PyDict(<< <<"a", PyList(<<PyInt(1)>>)>>, <<"done", PyList(<<PyBool(FALSE)>>)>> >>)
Filters == {PyNone, PyDict(<<>>), StatusFilter, TwoColumnFilter}

\* The lists of 0..MaxData rows, row i being (i, {"a": i}).
PatchData ==
    {PyList([i \in 1..n |-> PyTuple(<<PyInt(i), Fields(i)>>)]) : n \in 0..MaxData}
AddData == {PyList([i \in 1..n |-> Fields(i)]) : n \in 0..MaxData}
IdLists == {PyList([i \in 1..n |-> PyInt(i)]) : n \in 0..MaxData}

Queries == {PyStr("select * from Table1")}
SqlArgs == {PyNone, PyList(<<PyInt(1)>>)}
SqlTimeouts == {PyNone, PyInt(1000)}

Rec(id, fields) == PyDict(<< <<"id", PyInt(id)>>, <<"fields", fields>> >>)
Records(recs) == PyDict(<< <<"records", PyList(recs)>> >>)

TwoRecords == Records(<<Rec(7, Fields(2)), Rec(3, Fields(1))>>)
OneId == Records(<<PyDict(<< <<"id", PyInt(5)>> >>)>>)
ErrorBody == PyDict(<< <<"error", PyStr("Table not found")>> >>)

\* What the transport may answer: a status with a JSON body (the text is an
\* encoding of it), a status with a body that is not JSON, or no response.
Replies ==
    { Response(200, dumps(PyNone), TRUE, PyNone),
      Response(200, dumps(TwoRecords), TRUE, TwoRecords),
      Response(200, dumps(OneId), TRUE, OneId),
      Response(200, dumps(ErrorBody), TRUE, ErrorBody),
      Response(200, "OK", FALSE, PyNone),
      Response(304, "", FALSE, PyNone),
      Response(399, dumps(TwoRecords), TRUE, TwoRecords),
      Response(400, dumps(ErrorBody), TRUE, ErrorBody),
      Response(599, "Bad Gateway", FALSE, PyNone),
      TransportError }

\* ------------------------------------------------------------------- state

VARIABLES
    root_url,       \* GristClient.root_url
    api_key,        \* GristClient.api_key
    doc_id,         \* GristClient.doc_id
    timeout,        \* GristClient.timeout
    call,           \* the last public call: its name and arguments
    issued,         \* the requests that call handed to requests.request
    response,       \* what requests.request answered to that call
    result,         \* what that call returned or raised
    requests_sent   \* the requests issued so far by this client

config == <<root_url, api_key, doc_id, timeout>>
vars == <<root_url, api_key, doc_id, timeout, call, issued, response, result,
          requests_sent>>

NoCall == [op |-> "none", args |-> <<>>]

\* GristClient(root_url, api_key, doc_id, timeout): stores its arguments and
\* does no I/O.
Init ==
    /\ root_url \in RootUrls
    /\ api_key \in ApiKeys
    /\ doc_id \in DocIds
    /\ timeout \in Timeouts
    /\ call = NoCall
    /\ issued = <<>>
    /\ response = NoReply
    /\ result = NoResult
    /\ requests_sent = 0

\* ------------------------------------------------ generic request methods

\* Variant of headers: the bearer token is taken from the wrong attribute.
headers_wrong_key ==
    PyDict(<< <<"Accept", PyStr("application/json; charset=utf-8")>>,
              <<"Authorization", PyStr("Bearer " \o doc_id)>> >>)

headers ==
    PyDict(<< <<"Accept", PyStr("application/json; charset=utf-8")>>,
              <<"Authorization", PyStr("Bearer " \o api_key)>> >>)

\* Variant of ok: only 5xx statuses count as failures.
ok_server_errors_only(reply) == ~(reply.status_code \in 500..599)

\* requests.Response.ok: raise_for_status() raises for 400 <= status < 600.
ok(reply) == ~(reply.status_code \in 400..599)

\* What requests.request is called with.  The call passes no timeout=, so the
\* transport's default (None: wait forever) applies.
Request(method, path, query_params, json) ==
    [method |-> method, url |-> root_url \o "/api" \o path,
     params |-> query_params, headers |-> headers, json |-> json,
     timeout |-> PyNone]

\* Variant of _request: a response with a failure status is requested again.
_request_retry(method, path, query_params, json, reply) ==
    LET request == Request(method, path, query_params, json)
    IN  IF reply.kind = "error"
        THEN [issued |-> <<request>>, outcome |-> Raise("ConnectionError"),
              response |-> reply]
        ELSE IF ~ok(reply)
        THEN [issued |-> <<request, request>>,
              outcome |-> HTTPError(reply.status_code, reply.text),
              response |-> reply]
        ELSE [issued |-> <<request>>, outcome |-> Return(PyNone),
              response |-> reply]

\* _request: one call of requests.request, then the status check.  The
\* result's outcome is Return(None) when the response is handed back.
_request(method, path, query_params, json, reply) ==
    LET request == Request(method, path, query_params, json)
    IN  IF reply.kind = "error"
        THEN [issued |-> <<request>>, outcome |-> Raise("ConnectionError"),
              response |-> reply]
        ELSE IF ~ok(reply)
        THEN [issued |-> <<request>>,
              outcome |-> HTTPError(reply.status_code, reply.text),
              response |-> reply]
        ELSE [issued |-> <<request>>, outcome |-> Return(PyNone),
              response |-> reply]

\* Response.json() on what _request gave: the decoded body, or
\* JSONDecodeError when the body is not JSON.
json_of(r) ==
    IF r.outcome.kind = "raise" THEN [issued |-> r.issued, outcome |-> r.outcome]
    ELSE IF ~r.response.decodes
    THEN [issued |-> r.issued, outcome |-> Raise("JSONDecodeError")]
    ELSE [issued |-> r.issued, outcome |-> Return(r.response.json)]

_get_json(path, query_params, reply) ==
    json_of(_request("GET", path, query_params, PyNone, reply))

_patch_json(path, json, query_params, reply) ==
    json_of(_request("PATCH", path, query_params, json, reply))

_post_json(path, json, query_params, reply) ==
    json_of(_request("POST", path, query_params, json, reply))

\* obj[key] on the value a call produced.
getitem(outcome, key) ==
    IF outcome.kind = "raise" THEN outcome
    ELSE IF outcome.value.t # "dict" THEN Raise("TypeError")
    ELSE IF ~has_key(outcome.value, key) THEN Raise("KeyError")
    ELSE Return(dict_get(outcome.value, key))

\* [rec[key] for rec in obj] on the value a call produced.
comprehension(outcome, key) ==
    IF outcome.kind = "raise" THEN outcome
    ELSE IF outcome.value.t # "list" THEN Raise("TypeError")
    ELSE LET recs == outcome.value.v
             bad == {i \in 1..Len(recs) : ~has_key(recs[i], key)}
         IN  IF bad # {}
             THEN LET first == CHOOSE i \in bad : \A j \in bad : i <= j
                  IN  IF recs[first].t = "dict" THEN Raise("KeyError")
                      ELSE Raise("TypeError")
             ELSE Return(PyList([i \in 1..Len(recs) |-> dict_get(recs[i], key)]))

\* ------------------------------------------------------- public operations

records_path(table_id) ==
    "/docs/" \o doc_id \o "/tables/" \o format(table_id) \o "/records"

\* Variant of get_records: the filter parameter is sent without the `if filter:` test.
get_records_always_filter(table_id, filter, reply) ==
    LET query_params == PyDict(<< <<"filter", PyStr(dumps(filter))>> >>)
        r == _get_json(records_path(table_id), query_params, reply)
    IN  [issued |-> r.issued, outcome |-> getitem(r.outcome, "records")]

get_records(table_id, filter, reply) ==
    LET query_params ==
            IF truthy(filter)
            THEN PyDict(<< <<"filter", PyStr(dumps(filter))>> >>)
            ELSE PyDict(<<>>)
        r == _get_json(records_path(table_id), query_params, reply)
    IN  [issued |-> r.issued, outcome |-> getitem(r.outcome, "records")]

patch_records(table_id, data, noparse, reply) ==
    IF ~truthy(data)
    THEN [issued |-> <<>>, outcome |-> Return(PyNone)]
    ELSE LET json_body ==
                 Records([i \in 1..Len(data.v) |->
                            PyDict(<< <<"id", data.v[i].v[1]>>,
                                      <<"fields", data.v[i].v[2]>> >>)])
         IN  _patch_json(records_path(table_id), json_body,
                         PyDict(<< <<"noparse", PyStr(dumps(noparse))>> >>),
                         reply)

\* Variant of add_records: the `if not data` return is missing.
add_records_no_short_circuit(table_id, data, noparse, reply) ==
    LET json_body ==
            Records([i \in 1..Len(data.v) |-> PyDict(<< <<"fields", data.v[i]>> >>)])
        ids_json ==
            _post_json(records_path(table_id), json_body,
                       PyDict(<< <<"noparse", PyStr(dumps(noparse))>> >>),
                       reply)
    IN  [issued |-> ids_json.issued,
         outcome |-> comprehension(getitem(ids_json.outcome, "records"), "id")]

\* Variant of add_records: the body lists the fields mappings in reverse.
add_records_reversed_body(table_id, data, noparse, reply) ==
    IF ~truthy(data)
    THEN [issued |-> <<>>, outcome |-> Return(PyList(<<>>))]
    ELSE LET n == Len(data.v)
             json_body ==
                 Records([i \in 1..n |-> PyDict(<< <<"fields", data.v[n + 1 - i]>> >>)])
             ids_json ==
                 _post_json(records_path(table_id), json_body,
                            PyDict(<< <<"noparse", PyStr(dumps(noparse))>> >>),
                            reply)
         IN  [issued |-> ids_json.issued,
              outcome |-> comprehension(getitem(ids_json.outcome, "records"), "id")]

add_records(table_id, data, noparse, reply) ==
    IF ~truthy(data)
    THEN [issued |-> <<>>, outcome |-> Return(PyList(<<>>))]
    ELSE LET json_body ==
                 Records([i \in 1..Len(data.v) |->
                            PyDict(<< <<"fields", data.v[i]>> >>)])
             ids_json ==
                 _post_json(records_path(table_id), json_body,
                            PyDict(<< <<"noparse", PyStr(dumps(noparse))>> >>),
                            reply)
         IN  [issued |-> ids_json.issued,
              outcome |-> comprehension(getitem(ids_json.outcome, "records"), "id")]

\* list(ids) is posted as it is, the empty list too; the method has no return
\* statement, so it returns None unless _post_json raised.
delete_records(table_id, ids, reply) ==
    LET r == _post_json("/docs/" \o doc_id \o "/tables/" \o format(table_id)
                          \o "/data/delete",
                        PyList(ids.v), PyNone, reply)
    IN  [issued |-> r.issued,
         outcome |-> IF r.outcome.kind = "raise" THEN r.outcome ELSE Return(PyNone)]

\* Variant of sql: the records are returned whole, ids included.
sql_whole_records(query, args, sql_timeout, reply) ==
    LET json_body ==
            PyDict(<< <<"sql", query>> >>
                   \o (IF args # PyNone THEN << <<"args", args>> >> ELSE <<>>)
                   \o (IF sql_timeout # PyNone THEN << <<"timeout", args>> >> ELSE <<>>))
        r == _post_json("/docs/" \o doc_id \o "/sql", json_body, PyNone, reply)
    IN  [issued |-> r.issued, outcome |-> getitem(r.outcome, "records")]

\* json_body["timeout"] is assigned args, as line 133 of the source does.
sql(query, args, sql_timeout, reply) ==
    LET json_body ==
            PyDict(<< <<"sql", query>> >>
                   \o (IF args # PyNone THEN << <<"args", args>> >> ELSE <<>>)
                   \o (IF sql_timeout # PyNone THEN << <<"timeout", args>> >> ELSE <<>>))
        r == _post_json("/docs/" \o doc_id \o "/sql", json_body, PyNone, reply)
    IN  [issued |-> r.issued,
         outcome |-> comprehension(getitem(r.outcome, "records"), "fields")]

\* ----------------------------------------------------------------- actions

\* One public call, start to finish: the client is synchronous and keeps no
\* state but its configuration, which no method assigns.
Called(op, args, reply, r) ==
    /\ requests_sent < MaxRequests
    /\ call' = [op |-> op, args |-> args]
    /\ issued' = r.issued
    /\ response' = IF r.issued = <<>> THEN NoReply ELSE reply
    /\ result' = r.outcome
    /\ requests_sent' = requests_sent + Len(r.issued)
    /\ UNCHANGED <<root_url, api_key, doc_id, timeout>>

GetRecords ==
    \E table_id \in TableIds, filter \in Filters, reply \in Replies :
        Called("get_records", <<table_id, filter>>, reply,
               get_records(table_id, filter, reply))

PatchRecords ==
    \E table_id \in TableIds, data \in PatchData, noparse \in BOOLEAN,
       reply \in Replies :
        Called("patch_records", <<table_id, data, PyBool(noparse)>>, reply,
               patch_records(table_id, data, PyBool(noparse), reply))

AddRecords ==
    \E table_id \in TableIds, data \in AddData, noparse \in BOOLEAN,
       reply \in Replies :
        Called("add_records", <<table_id, data, PyBool(noparse)>>, reply,
               add_records(table_id, data, PyBool(noparse), reply))

DeleteRecords ==
    \E table_id \in TableIds, ids \in IdLists, reply \in Replies :
        Called("delete_records", <<table_id, ids>>, reply,
               delete_records(table_id, ids, reply))

Sql ==
    \E query \in Queries, args \in SqlArgs, sql_timeout \in SqlTimeouts,
       reply \in Replies :
        Called("sql", <<query, args, sql_timeout>>, reply,
               sql(query, args, sql_timeout, reply))

Next ==
    \/ GetRecords
    \/ PatchRecords
    \/ AddRecords
    \/ DeleteRecords
    \/ Sql

Spec == Init /\ [][Next]_vars

\* ------------------------------------------------------------------ claims

\* True of a call that is documented to reach the network: every
\* get_records, delete_records and sql, and patch_records / add_records with
\* data that is not empty.
IssuesRequest(c) ==
    \/ c.op \in {"get_records", "delete_records", "sql"}
    \/ c.op \in {"patch_records", "add_records"} /\ Len(c.args[2].v) > 0

HTTPErrorRaised ==
    /\ result.kind = "raise"
    /\ result.exc = "HTTPError"
    /\ result.status_code = response.status_code
    /\ result.message = response.text

\* C1 as stated: whenever an operation that issued a request got a response
\* whose status is outside [200,300), 1xx and 3xx included, the call raises
\* HTTPError with that status and the body text as message.
C1_Original ==
    (IssuesRequest(call) /\ response.kind = "response"
        /\ response.status_code \notin 200..299)
    => HTTPErrorRaised

\* C1 amended: whenever an operation that issued a request got a response
\* whose status is in [400,600), the call raises HTTPError with that status
\* and the body text as message and returns nothing; for any other status no
\* HTTPError is raised.
C1_HTTPErrorOn4xx5xx ==
    (IssuesRequest(call) /\ response.kind = "response")
    => IF response.status_code \in 400..599
       THEN HTTPErrorRaised
       ELSE result.exc # "HTTPError"

C1_Witness ==
    /\ call.op = "delete_records"
    /\ response.kind = "response"
    /\ response.status_code = 599
    /\ result = HTTPError(599, "Bad Gateway")

\* C2: every request is issued with the timeout the client was constructed
\* with: that timeout when it is not None, no timeout when it is None.
C2_TimeoutApplied ==
    \A i \in 1..Len(issued) : issued[i].timeout = timeout

\* C3: the body sql posts has "sql" equal to the query, "args" exactly when
\* args is not None and then equal to args, and "timeout" exactly when the
\* timeout argument is not None and then equal to that timeout.
C3_SqlBody ==
    call.op = "sql" =>
        LET body == issued[1].json
        IN  /\ issued[1].method = "POST"
            /\ issued[1].url = root_url \o "/api/docs/" \o doc_id \o "/sql"
            /\ has_key(body, "sql") /\ dict_get(body, "sql") = call.args[1]
            /\ has_key(body, "args") <=> call.args[2] # PyNone
            /\ has_key(body, "args") => dict_get(body, "args") = call.args[2]
            /\ has_key(body, "timeout") <=> call.args[3] # PyNone
            /\ has_key(body, "timeout") => dict_get(body, "timeout") = call.args[3]

\* C4: patch_records returns None whenever it returns, whatever JSON body
\* the server answered the PATCH with.
C4_PatchReturnsNone ==
    (call.op = "patch_records" /\ result.kind = "return")
    => result.value = PyNone

\* C5: patch_records and add_records with empty data issue no request,
\* whatever the table, noparse and the reply the server would have given, and
\* return None and [] respectively.
C5_EmptyShortCircuit ==
    [][(call'.op \in {"patch_records", "add_records"}
            /\ Len(call'.args[2].v) = 0)
       => /\ issued' = <<>>
          /\ requests_sent' = requests_sent
          /\ response' = NoReply
          /\ result' = IF call'.op = "patch_records"
                       THEN Return(PyNone) ELSE Return(PyList(<<>>))]_vars

C5_Witness ==
    /\ call = [op |-> "add_records",
               args |-> <<PyInt(2), PyList(<<>>), PyBool(TRUE)>>]
    /\ issued = <<>>
    /\ result = Return(PyList(<<>>))
    /\ requests_sent = 1

\* The i-th entry of the body add_records posted is {"fields": data[i]}.
AddBodyMatchesData ==
    LET data == call.args[2].v
        body == issued[1].json
    IN  /\ has_key(body, "records")
        /\ Len(dict_get(body, "records").v) = Len(data)
        /\ \A i \in 1..Len(data) :
              dict_get(body, "records").v[i] = PyDict(<< <<"fields", data[i]>> >>)

\* The i-th id add_records returned is response["records"][i]["id"].
AddIdsMatchResponse ==
    LET recs == dict_get(response.json, "records").v
    IN  /\ result.value.t = "list"
        /\ Len(result.value.v) = Len(recs)
        /\ \A i \in 1..Len(recs) : result.value.v[i] = dict_get(recs[i], "id")

\* C6 as stated: a successful add_records with data that is not empty
\* returns len(data) ids, the i-th the id of the i-th posted fields mapping.
C6_Original ==
    (call.op = "add_records" /\ Len(call.args[2].v) > 0 /\ result.kind = "return")
    => /\ AddBodyMatchesData
       /\ AddIdsMatchResponse
       /\ Len(result.value.v) = Len(call.args[2].v)

\* C6 amended: add_records with data that is not empty posts the fields
\* mappings in input order, and a successful call returns one id per record
\* of the response, in the response's order (len(data) ids when the server
\* answers one record per posted mapping).
C6_AddRecordsIds ==
    (call.op = "add_records" /\ Len(call.args[2].v) > 0)
    => /\ Len(issued) = 1
       /\ issued[1].method = "POST"
       /\ AddBodyMatchesData
       /\ result.kind = "return" => AddIdsMatchResponse

C6_Witness ==
    /\ call.op = "add_records"
    /\ call.args[2] = PyList(<<Fields(1), Fields(2)>>)
    /\ dict_get(issued[1].json, "records").v[2] = PyDict(<< <<"fields", Fields(2)>> >>)
    /\ result = Return(PyList(<<PyInt(7), PyInt(3)>>))

\* C7: every call that is documented to reach the network issues exactly one
\* request, whether it returns or raises; nothing is retried.
C7_OneRequestPerCall ==
    [][IssuesRequest(call')
       => Len(issued') = 1 /\ requests_sent' = requests_sent + 1]_vars

C7_Witness ==
    /\ call.op = "delete_records"
    /\ call.args[2] = PyList(<<>>)
    /\ Len(issued) = 1
    /\ issued[1].json = PyList(<<>>)
    /\ result.kind = "raise"
    /\ requests_sent = 2

TableText(table_id) ==
    IF table_id = PyStr("Table1") THEN "Table1" ELSE "2"

FilterText(filter) ==
    IF filter = StatusFilter
    THEN "{\"status\": [\"open\", \"pending\"]}"
    ELSE "{\"a\": [1], \"done\": [false]}"

\* C8: get_records issues a GET to /docs/{doc_id}/tables/{table_id}/records
\* whose filter parameter is the JSON text of the filter when one is given
\* and not empty, and absent otherwise; when it returns, it returns the
\* response's records array as it is.
C8_GetRecords ==
    call.op = "get_records" =>
        LET table_id == call.args[1]
            filter == call.args[2]
        IN  /\ Len(issued) = 1
            /\ issued[1].method = "GET"
            /\ issued[1].url = root_url \o "/api/docs/" \o doc_id \o "/tables/"
                                  \o TableText(table_id) \o "/records"
            /\ issued[1].params =
                  IF filter \in {PyNone, PyDict(<<>>)}
                  THEN PyDict(<<>>)
                  ELSE PyDict(<< <<"filter", PyStr(FilterText(filter))>> >>)
            /\ (response.kind = "response" /\ response.status_code = 200
                  /\ response.decodes /\ has_key(response.json, "records"))
               => result.kind = "return"
            /\ result.kind = "return"
               => result.value = dict_get(response.json, "records")

C8_Witness ==
    /\ call = [op |-> "get_records", args |-> <<PyStr("Table1"), StatusFilter>>]
    /\ issued[1].params =
          PyDict(<< <<"filter", PyStr("{\"status\": [\"open\", \"pending\"]}")>> >>)
    /\ result = Return(PyList(<<Rec(7, Fields(2)), Rec(3, Fields(1))>>))

\* C9: when sql returns, it returns one element per record of the response,
\* in order, the i-th being records[i]["fields"], without the record's id.
C9_SqlFields ==
    (call.op = "sql" /\ result.kind = "return")
    => LET recs == dict_get(response.json, "records").v
       IN  /\ result.value.t = "list"
           /\ Len(result.value.v) = Len(recs)
           /\ \A i \in 1..Len(recs) :
                 /\ result.value.v[i] = dict_get(recs[i], "fields")
                 /\ ~has_key(result.value.v[i], "id")

C9_Witness ==
    /\ call.op = "sql"
    /\ response.json = TwoRecords
    /\ result = Return(PyList(<<Fields(2), Fields(1)>>))

\* C10: every request carries Accept: application/json; charset=utf-8 and
\* Authorization: Bearer {api_key} with the api_key of construction, and no
\* operation, returning or raising, changes root_url, api_key, doc_id or
\* timeout.
C10_HeadersAndConfig ==
    [][/\ <<root_url, api_key, doc_id, timeout>>' = <<root_url, api_key, doc_id, timeout>>
       /\ \A i \in 1..Len(issued') :
             issued'[i].headers =
                PyDict(<< <<"Accept", PyStr("application/json; charset=utf-8")>>,
                          <<"Authorization", PyStr("Bearer " \o api_key)>> >>)]_vars

C10_Witness ==
    /\ requests_sent = 2
    /\ result.kind = "raise"
    /\ api_key = "key-2"
    /\ Len(issued) = 1
    /\ dict_get(issued[1].headers, "Authorization") = PyStr("Bearer key-2")

====
